---- MODULE Spec2Model ----
(***************************************************************************)
(* Model of the stitch finish/cascade subsystem: the document store        *)
(* (store.ts), the parent-children index (indexing.ts), the lifecycle      *)
(* engine (finish.ts) and the MCP handlers with their keyed mutex          *)
(* (mcp/handlers.ts).                                                      *)
(***************************************************************************)
EXTENDS Integers, Sequences, FiniteSets, TLC

\* ------------------------------------------------------------------ bounds
MaxDocs == 3
MaxLinks == 1
MaxClock == 2

\* ------------------------------------------------------- program constants
INDEX_VERSION == 1

Ids == 1..MaxDocs
NoId == 0
Shas == 1..MaxLinks

StitchStatus == {"open", "closed", "superseded", "abandoned"}
TerminalStatus == {"closed", "superseded", "abandoned"}

\* The transition table of docs/specs/finish-command.md, section 7.
LegalTransitions ==
  {<<"open", "closed">>, <<"open", "superseded">>, <<"open", "abandoned">>,
   <<"closed", "superseded">>, <<"closed", "abandoned">>,
   <<"superseded", "closed">>, <<"superseded", "abandoned">>,
   <<"abandoned", "closed">>, <<"abandoned", "superseded">>}

VARIABLES
  files,      \* .stitch/stitches/<id>.md : id -> file content
  indexFile,  \* .stitch/index.json
  current,    \* .stitch/current (NoId = empty)
  clock,      \* what new Date() returns
  preview,    \* <<>> or <<[p, id, options]>>: a FinishPreview held by a caller
  last,       \* the last completed call and its outcome
  mutexMap,   \* handlers.ts: stitch id -> {mutex, refCount}
  mutexes,    \* the Mutex objects created so far: holder and waiters
  tasks       \* the MCP handler calls in flight

lockVars == <<mutexMap, mutexes, tasks>>
vars == <<files, indexFile, current, clock, preview, last, mutexMap, mutexes, tasks>>

\* ------------------------------------------------------------ documents
\* The content of one stitch file, as parseStitchFile reads it back. A list
\* that serializeStitchFile omits when empty is the empty set/sequence here.
\* malformed: the file is there and parseStitchFile throws on it.
NoFile ==
  [exists |-> FALSE, status |-> "open", parent |-> NoId, depends_on |-> <<>>,
   links |-> {}, fingerprints |-> {}, updated_at |-> 0, body |-> 0,
   malformed |-> FALSE]

\* The timestamp update writing the epoch instead of the current time.
updateTimestampEpoch(frontmatter, now) == [frontmatter EXCEPT !.updated_at = 0]

updateTimestamp(frontmatter, now) == [frontmatter EXCEPT !.updated_at = now]

\* generateStitchId: a fresh id (the lowest unused one stands for it).
generateStitchId(fs) == CHOOSE i \in Ids : ~fs[i].exists /\ \A j \in Ids : j < i => fs[j].exists

\* createStitch's frontmatter: status open, parent when given; the file is
\* written, the index is not touched.
createStitch(fs, now, parentId) ==
  LET id == generateStitchId(fs)
      frontmatter == [exists |-> TRUE, status |-> "open", parent |-> parentId,
                      depends_on |-> <<>>, links |-> {}, fingerprints |-> {},
                      updated_at |-> now, body |-> 0, malformed |-> FALSE]
  IN [fs EXCEPT ![id] = frontmatter]

\* loadStitch: StitchNotFoundError when the file does not exist, the error of
\* parseStitchFile when the file is malformed.
loadStitch(fs, id) ==
  IF id \in Ids /\ fs[id].exists /\ ~fs[id].malformed THEN [ok |-> TRUE, doc |-> fs[id]]
  ELSE [ok |-> FALSE, doc |-> NoFile]

\* saveStitch: rewrites the file with a fresh updated_at.
saveStitch(fs, id, doc, now) == [fs EXCEPT ![id] = updateTimestamp(doc, now)]

\* addLink: a duplicate link leaves the file alone, a new one is saved.
addLink(fs, id, doc, sha, now) ==
  IF sha \in doc.links THEN fs
  ELSE saveStitch(fs, id, [doc EXCEPT !.links = doc.links \cup {sha}], now)

\* addFingerprint: a fingerprint with the same algo, kind and value is not
\* added twice.
addFingerprint(doc, fingerprint) ==
  IF fingerprint \in doc.fingerprints THEN doc
  ELSE [doc EXCEPT !.fingerprints = doc.fingerprints \cup {fingerprint}]

\* addStagedDiffFingerprint for a non-empty staged diff whose hash is
\* fingerprint: the document is saved whether or not the fingerprint is new.
addStagedDiffFingerprint(fs, id, doc, fingerprint, now) ==
  saveStitch(fs, id, addFingerprint(doc, fingerprint), now)

\* ---------------------------------------------------------------- index
EmptyChildren == [i \in Ids |-> <<>>]

NoIndexFile ==
  [exists |-> FALSE, parses |-> TRUE, version |-> INDEX_VERSION,
   children |-> EmptyChildren]

\* readdir order of the stitch files; ids ascending stands for it.
RECURSIVE readdir(_, _)
readdir(fs, i) ==
  IF i > MaxDocs THEN <<>>
  ELSE (IF fs[i].exists THEN <<i>> ELSE <<>>) \o readdir(fs, i + 1)

\* Stable insertion of id into a list sorted by updated_at descending.
RECURSIVE insertByUpdatedAt(_, _, _)
insertByUpdatedAt(fs, sorted, id) ==
  IF sorted = <<>> THEN <<id>>
  ELSE IF fs[Head(sorted)].updated_at >= fs[id].updated_at
       THEN <<Head(sorted)>> \o insertByUpdatedAt(fs, Tail(sorted), id)
       ELSE <<id>> \o sorted

RECURSIVE sortByUpdatedAt(_, _, _)
sortByUpdatedAt(fs, todo, sorted) ==
  IF todo = <<>> THEN sorted
  ELSE sortByUpdatedAt(fs, Tail(todo), insertByUpdatedAt(fs, sorted, Head(todo)))

\* listStitches without filter: every parseable file, newest first.
listStitches(fs) ==
  sortByUpdatedAt(fs, SelectSeq(readdir(fs, 1), LAMBDA id : ~fs[id].malformed), <<>>)

\* The grouping loop giving no entry to a parent id without a loadable file.
RECURSIVE groupByLoadableParent(_, _, _)
groupByLoadableParent(fs, docs, children) ==
  IF docs = <<>> THEN children
  ELSE LET id == Head(docs)
           parentId == fs[id].parent
       IN groupByLoadableParent(fs, Tail(docs),
            IF parentId # NoId /\ loadStitch(fs, parentId).ok
            THEN [children EXCEPT ![parentId] = Append(@, id)]
            ELSE children)

RECURSIVE groupByParent(_, _, _)
groupByParent(fs, docs, children) ==
  IF docs = <<>> THEN children
  ELSE LET id == Head(docs)
           parentId == fs[id].parent
       IN groupByParent(fs, Tail(docs),
            IF parentId # NoId
            THEN [children EXCEPT ![parentId] = Append(@, id)]
            ELSE children)

\* rebuildIndex: the index built from the stitch files (it is also saved).
rebuildIndex(fs) ==
  [exists |-> TRUE, parses |-> TRUE, version |-> INDEX_VERSION,
   children |-> groupByParent(fs, listStitches(fs), EmptyChildren)]

\* loadIndex accepting any version tag.
loadIndexOfAnyVersion(idx) ==
  IF ~idx.exists THEN [ok |-> FALSE, index |-> NoIndexFile]
  ELSE IF ~idx.parses THEN [ok |-> FALSE, index |-> NoIndexFile]
  ELSE [ok |-> TRUE, index |-> idx]

\* loadIndex: null (ok = FALSE) when the file is absent, when JSON.parse
\* throws on it, or when it is of another version.
loadIndex(idx) ==
  IF ~idx.exists THEN [ok |-> FALSE, index |-> NoIndexFile]
  ELSE IF ~idx.parses THEN [ok |-> FALSE, index |-> NoIndexFile]
  ELSE IF idx.version # INDEX_VERSION THEN [ok |-> FALSE, index |-> NoIndexFile]
  ELSE [ok |-> TRUE, index |-> idx]

\* getIndex rebuilding (and saving) the index on every call.
getIndexAlwaysRebuilding(fs, idx) == rebuildIndex(fs)

\* getIndex: the loaded index, or the rebuilt one, which is then on disk.
getIndex(fs, idx) ==
  LET loaded == loadIndex(idx)
  IN IF loaded.ok THEN loaded.index ELSE rebuildIndex(fs)

\* The breadth-first loop of getDescendants.
RECURSIVE getDescendantsLoop(_, _, _, _)
getDescendantsLoop(children, queue, visited, descendants) ==
  IF queue = <<>> THEN descendants
  ELSE LET currentId == Head(queue)
       IN IF currentId \in visited
          THEN getDescendantsLoop(children, Tail(queue), visited, descendants)
          ELSE getDescendantsLoop(children, Tail(queue) \o children[currentId],
                                  visited \cup {currentId},
                                  descendants \o children[currentId])

getDescendants(index, id) == getDescendantsLoop(index.children, <<id>>, {}, <<>>)

\* ------------------------------------------------------------ finish.ts
\* FinishOptions.status is optional: "undefined" is the option not passed.
StatusOptions == {"undefined"} \cup TerminalStatus

\* hasLinkedCommits counting diff fingerprints as linked work.
hasLinkedCommitsOrFingerprints(doc) == doc.links # {} \/ doc.fingerprints # {}

\* hasLinkedCommits: git.links is there and not empty.
hasLinkedCommits(doc) == doc.links # {}

\* shouldAutoAbandon: no linked commits, or an open descendant among the
\* loaded ones.
shouldAutoAbandon(doc, descendants) ==
  IF ~hasLinkedCommits(doc)
  THEN [autoAbandon |-> TRUE, reason |-> "No linked commits"]
  ELSE IF \E i \in 1..Len(descendants) : descendants[i].doc.status = "open"
       THEN [autoAbandon |-> TRUE, reason |-> "Has open children"]
       ELSE [autoAbandon |-> FALSE, reason |-> ""]

\* loadDescendants keeping a descendant that cannot be loaded, as an empty
\* open document.
RECURSIVE loadDescendantsKeepingUnloadable(_, _, _)
loadDescendantsKeepingUnloadable(fs, descendantIds, acc) ==
  IF descendantIds = <<>> THEN acc
  ELSE LET descId == Head(descendantIds)
           loaded == loadStitch(fs, descId)
       IN loadDescendantsKeepingUnloadable(fs, Tail(descendantIds),
            [acc EXCEPT !.descendants = Append(@, [id |-> descId, doc |-> loaded.doc])])

\* The loop of prepareFinish over the descendant ids: a descendant that
\* cannot be loaded is skipped with a warning.
RECURSIVE loadDescendants(_, _, _)
loadDescendants(fs, descendantIds, acc) ==
  IF descendantIds = <<>> THEN acc
  ELSE LET descId == Head(descendantIds)
           loaded == loadStitch(fs, descId)
       IN loadDescendants(fs, Tail(descendantIds),
            IF loaded.ok
            THEN [acc EXCEPT !.descendants = Append(@, [id |-> descId, doc |-> loaded.doc])]
            ELSE [acc EXCEPT !.warnings =
                    Append(@, [kind |-> "Could not load descendant", id |-> descId])])

\* prepareThrows with the index saved before the throw.
prepareThrowsAfterIndexSave(name, idx) ==
  [error |-> name, indexFile |-> [idx EXCEPT !.exists = TRUE], preview |-> <<>>]

\* An error thrown by prepareFinish: nothing is returned.
prepareThrows(name, idx) == [error |-> name, indexFile |-> idx, preview |-> <<>>]

\* resolveFinish with the force flag not consulted.
resolveFinishIgnoringForce(status, force, autoAbandonCheck) ==
  IF autoAbandonCheck.autoAbandon /\ status # "abandoned"
  THEN [finalStatus |-> "abandoned", autoDetected |-> TRUE,
        forceRequired |-> "Cannot set status. Use --force to override, or --status=abandoned.",
        warnings |-> <<[kind |-> "Marking as abandoned", id |-> NoId]>>]
  ELSE [finalStatus |-> status, autoDetected |-> FALSE, forceRequired |-> "",
        warnings |-> <<>>]

\* resolveFinish with the forced branch pushing no warning.
resolveFinishSilentForce(status, force, autoAbandonCheck) ==
  IF autoAbandonCheck.autoAbandon /\ status # "abandoned" /\ ~force
  THEN [finalStatus |-> "abandoned", autoDetected |-> TRUE,
        forceRequired |-> "Cannot set status. Use --force to override, or --status=abandoned.",
        warnings |-> <<[kind |-> "Marking as abandoned", id |-> NoId]>>]
  ELSE [finalStatus |-> status, autoDetected |-> FALSE, forceRequired |-> "",
        warnings |-> <<>>]

\* resolveFinish falling back to abandoned without asking for force.
resolveFinishAbandoningQuietly(status, force, autoAbandonCheck) ==
  IF autoAbandonCheck.autoAbandon /\ status # "abandoned"
  THEN IF force
       THEN [finalStatus |-> status, autoDetected |-> FALSE, forceRequired |-> "",
             warnings |-> <<[kind |-> "Forcing status as requested", id |-> NoId]>>]
       ELSE [finalStatus |-> "abandoned", autoDetected |-> TRUE, forceRequired |-> "",
             warnings |-> <<[kind |-> "Marking as abandoned", id |-> NoId]>>]
  ELSE [finalStatus |-> status, autoDetected |-> FALSE, forceRequired |-> "",
        warnings |-> <<>>]

\* "Determine final status with auto-detection" of prepareFinish: what the
\* auto-abandon check makes of the requested status and the force flag, and
\* the warning it pushes.
resolveFinish(status, force, autoAbandonCheck) ==
  IF autoAbandonCheck.autoAbandon /\ status # "abandoned"
  THEN IF force
       THEN [finalStatus |-> status, autoDetected |-> FALSE, forceRequired |-> "",
             warnings |-> <<[kind |-> "Forcing status as requested", id |-> NoId]>>]
       ELSE [finalStatus |-> "abandoned", autoDetected |-> TRUE,
             forceRequired |-> "Cannot set status. Use --force to override, or --status=abandoned.",
             warnings |-> <<[kind |-> "Marking as abandoned", id |-> NoId]>>]
  ELSE [finalStatus |-> status, autoDetected |-> FALSE, forceRequired |-> "",
        warnings |-> <<>>]

\* The affected list with every loaded descendant in it.
affectedWithAllDescendants(target, descendants, finalStatus) ==
  <<target>> \o descendants

\* The affected list with the status test applied to the target as well.
affectedSkippingSettledTarget(target, descendants, finalStatus) ==
  SelectSeq(<<target>> \o descendants, LAMBDA desc : desc.doc.status # finalStatus)

\* "All affected stitches": the target, then the descendants whose status
\* differs from the final one.
affectedStitches(target, descendants, finalStatus) ==
  <<target>> \o SelectSeq(descendants, LAMBDA desc : desc.doc.status # finalStatus)

\* The confirmation test asking for one affected document only.
requiresConfirmationForAny(affected) == Len(affected) >= 1

\* "Determine if confirmation is required": affected.length >= 2.
requiresConfirmation(affected) == Len(affected) >= 2

\* prepareFinish: the preview, and the index file as the call leaves it
\* (getDescendants saves a rebuilt index when none could be loaded).
prepareFinish(fs, idx, id, options) ==
  LET status == IF options.status = "undefined" THEN "closed" ELSE options.status
      supersededBy == options.supersededBy
      force == options.force
  IN IF supersededBy # NoId /\ status # "superseded"
     THEN prepareThrows("InvalidSupersededByError", idx)
     ELSE IF supersededBy # NoId /\ ~loadStitch(fs, supersededBy).ok
     THEN prepareThrows("StitchError", idx)
     ELSE IF ~loadStitch(fs, id).ok
     THEN prepareThrows(IF id \in Ids /\ fs[id].exists THEN "parse error"
                        ELSE "StitchNotFoundError", idx)
     ELSE
       LET target == [id |-> id, doc |-> loadStitch(fs, id).doc]
           index == getIndex(fs, idx)
           descendantIds == getDescendants(index, id)
           loaded == loadDescendants(fs, descendantIds,
                                     [descendants |-> <<>>, warnings |-> <<>>])
           descendants == loaded.descendants
           autoAbandonCheck == shouldAutoAbandon(target.doc, descendants)
           resolved == resolveFinish(status, force, autoAbandonCheck)
           affected == affectedStitches(target, descendants, resolved.finalStatus)
       IN [error |-> "",
           indexFile |-> index,
           preview |-> <<[target |-> target,
                          affected |-> affected,
                          finalStatus |-> resolved.finalStatus,
                          autoDetected |-> resolved.autoDetected,
                          warnings |-> loaded.warnings \o resolved.warnings,
                          requiresConfirmation |-> requiresConfirmation(affected),
                          forceRequired |-> IF force THEN "" ELSE resolved.forceRequired]>>]

\* finishUpdates changing the status of open documents only.
finishUpdatesOpenOnly(fs, p, supersededBy, now) ==
  [i \in 1..Len(p.affected) |->
     LET doc == p.affected[i].doc
         withStatus == IF doc.status = "open" THEN [doc EXCEPT !.status = p.finalStatus]
                       ELSE doc
     IN [id |-> p.affected[i].id,
         originalContent |-> fs[p.affected[i].id],
         newContent |-> updateTimestamp(withStatus, now),
         previousStatus |-> doc.status]]

\* The "Prepare all changes" loop of executeFinish: per affected document the
\* content read from disk now and the content to write, built from the
\* preview's copy of the document.
finishUpdates(fs, p, supersededBy, now) ==
  [i \in 1..Len(p.affected) |->
     LET doc == p.affected[i].doc
         withStatus == [doc EXCEPT !.status = p.finalStatus]
         existingDependsOn == withStatus.depends_on
         withDependsOn ==
           IF supersededBy # NoId /\ p.affected[i].id = p.target.id
              /\ ~(\E k \in 1..Len(existingDependsOn) : existingDependsOn[k] = supersededBy)
           THEN [withStatus EXCEPT !.depends_on = Append(existingDependsOn, supersededBy)]
           ELSE withStatus
     IN [id |-> p.affected[i].id,
         originalContent |-> fs[p.affected[i].id],
         newContent |-> updateTimestamp(withDependsOn, now),
         previousStatus |-> doc.status]]

\* writeFile of the new content of updates[1..n], in order.
RECURSIVE writeUpdates(_, _, _)
writeUpdates(fs, updates, n) ==
  IF n = 0 THEN fs
  ELSE [writeUpdates(fs, updates, n - 1) EXCEPT ![updates[n].id] = updates[n].newContent]

\* rollback with the loop stopping after the first written file.
rollbackFirstOnly(fs, updates, written, rollbackFails) ==
  IF written = 0 \/ 1 \in rollbackFails THEN fs
  ELSE [fs EXCEPT ![updates[1].id] = updates[1].originalContent]

\* rollback with the first failing rewrite ending the loop.
RECURSIVE rollbackUntilFailure(_, _, _, _)
rollbackUntilFailure(fs, updates, written, rollbackFails) ==
  IF written = 0 THEN fs
  ELSE LET before == rollbackUntilFailure(fs, updates, written - 1, rollbackFails)
       IN IF \E k \in rollbackFails : k <= written THEN before
          ELSE [before EXCEPT ![updates[written].id] = updates[written].originalContent]

\* The rollback loop: writtenPaths[i] gets updates[i].originalContent back,
\* for i up to the number of files written; a failing rewrite is swallowed.
RECURSIVE rollback(_, _, _, _)
rollback(fs, updates, written, rollbackFails) ==
  IF written = 0 THEN fs
  ELSE LET before == rollback(fs, updates, written - 1, rollbackFails)
       IN IF written \in rollbackFails THEN before
          ELSE [before EXCEPT ![updates[written].id] = updates[written].originalContent]

\* The force check with the preview's forceRequired not consulted.
forceRequiredNeverThrows(p) == FALSE

\* "Check if force is required but not provided": executeFinish throws
\* FinishForceRequiredError when preview.forceRequired is a non-empty string.
forceRequiredThrows(p) == p.forceRequired # ""

\* executeFinish. failAt = 0: every write succeeds; failAt = k: the k-th
\* writeFile throws (leaving that file as it was) after k-1 files were
\* written. rollbackFails: the positions whose rollback rewrite throws.
\* reads: the documents whose file the call read.
executeFinish(fs, p, options, now, failAt, rollbackFails) ==
  IF forceRequiredThrows(p)
  THEN [error |-> "FinishForceRequiredError", files |-> fs, finished |-> <<>>,
        warnings |-> <<>>, autoDetectedStatus |-> FALSE, finalStatus |-> p.finalStatus,
        reads |-> {}]
  ELSE IF \E i \in 1..Len(p.affected) : ~fs[p.affected[i].id].exists
  THEN [error |-> "ENOENT", files |-> fs, finished |-> <<>>,
        warnings |-> <<>>, autoDetectedStatus |-> FALSE, finalStatus |-> p.finalStatus,
        reads |-> {p.affected[i].id : i \in 1..Len(p.affected)}]
  ELSE
    LET updates == finishUpdates(fs, p, options.supersededBy, now)
        finished == [i \in 1..Len(updates) |->
                       [id |-> updates[i].id,
                        previousStatus |-> updates[i].previousStatus,
                        newStatus |-> p.finalStatus]]
        reads == {updates[i].id : i \in 1..Len(updates)}
    IN IF failAt = 0
       THEN [error |-> "", files |-> writeUpdates(fs, updates, Len(updates)),
             finished |-> finished, warnings |-> p.warnings,
             autoDetectedStatus |-> p.autoDetected, finalStatus |-> p.finalStatus,
             reads |-> reads]
       ELSE [error |-> "write failed",
             files |-> rollback(writeUpdates(fs, updates, failAt - 1), updates,
                                failAt - 1, rollbackFails),
             finished |-> <<>>, warnings |-> <<>>,
             autoDetectedStatus |-> FALSE, finalStatus |-> p.finalStatus,
             reads |-> reads]

\* ------------------------------------------------------------- the calls
\* The record of a call that is no finish.
NoCall ==
  [op |-> "none", id |-> NoId, error |-> "",
   options |-> [status |-> "undefined", supersededBy |-> NoId, force |-> FALSE],
   preview |-> <<>>, before |-> <<>>, failAt |-> 0, rollbackFails |-> {},
   finished |-> <<>>, warnings |-> <<>>, autoDetectedStatus |-> FALSE,
   finalStatus |-> "closed", reads |-> {}, supersededBy |-> NoId,
   currentBefore |-> NoId, indexBefore |-> <<>>, index |-> <<>>]

\* ---------------------------------------------------- handlers.ts state
MaxTasks == 2
Tasks == 1..MaxTasks
NoTask == 0

\* The Mutex objects alive at one time: at most one per call in flight.
Mutexes == 1..MaxTasks
NoMutex == 0

\* new Mutex(): unlocked, nobody waiting.
FreeMutex == [holder |-> NoTask, queue |-> <<>>]

NoMutexEntry == [present |-> FALSE, mutex |-> NoMutex, refCount |-> 0]
NoMutexMap == [i \in Ids |-> NoMutexEntry]

\* The input of a handler call: the fields the handlers of this model read.
NoArg == [status |-> "undefined", sha |-> 0, body |-> 0, force |-> FALSE]

IdleTask == [kind |-> "none", id |-> NoId, pc |-> "idle", mutex |-> NoMutex,
             doc |-> NoFile, held |-> <<>>, arg |-> NoArg]
NoTasks == [t \in Tasks |-> IdleTask]

FinishOptions ==
  [status : StatusOptions, supersededBy : {NoId}, force : BOOLEAN]

Init ==
  /\ files = [i \in Ids |-> NoFile]
  /\ indexFile = NoIndexFile
  /\ current = NoId
  /\ clock = 0
  /\ preview = <<>>
  /\ last = NoCall
  /\ mutexMap = NoMutexMap
  /\ mutexes = [m \in Mutexes |-> FreeMutex]
  /\ tasks = NoTasks

\* No call is in progress and the last result has been taken.
Idle == preview = <<>> /\ last = NoCall

\* createStitch(repoRoot, title, parentId?)
CreateStitch(parentId) ==
  /\ Idle
  /\ \E i \in Ids : ~files[i].exists
  /\ files' = createStitch(files, clock, parentId)
  /\ UNCHANGED <<indexFile, current, clock, preview, last>>
  /\ UNCHANGED lockVars

\* loadStitch, then addCommitLink(repoRoot, doc, sha) for an existing commit.
LinkCommit(id, sha) ==
  /\ Idle
  /\ loadStitch(files, id).ok
  /\ files' = addLink(files, id, loadStitch(files, id).doc, sha, clock)
  /\ UNCHANGED <<indexFile, current, clock, preview, last>>
  /\ UNCHANGED lockVars

\* The callback of handleStitchUpdateFrontmatter with patch = {status: value},
\* from the loaded doc on: the value is assigned as it comes, then the
\* document is saved.
handleStitchUpdateFrontmatter(fs, id, doc, patch, now) ==
  LET patchedFrontmatter == [doc EXCEPT !.status = patch.status]
  IN saveStitch(fs, id, updateTimestamp(patchedFrontmatter, now), now)

\* The callback of handleStitchUpdateBody, from the loaded doc on.
handleStitchUpdateBody(fs, id, doc, bodyMarkdown, now) ==
  saveStitch(fs, id, updateTimestamp([doc EXCEPT !.body = bodyMarkdown], now), now)

\* One update-frontmatter call, with no other call in flight.
UpdateFrontmatter(id, patch) ==
  /\ Idle
  /\ loadStitch(files, id).ok
  /\ files' = handleStitchUpdateFrontmatter(files, id, loadStitch(files, id).doc,
                                            patch, clock)
  /\ UNCHANGED <<indexFile, current, clock, preview, last>>
  /\ UNCHANGED lockVars

\* prepareFinish(repoRoot, id, options): the caller now holds the preview,
\* or the error.
PrepareFinish(id, options) ==
  /\ Idle
  /\ LET r == prepareFinish(files, indexFile, id, options)
     IN /\ indexFile' = r.indexFile
        /\ IF r.error = ""
           THEN /\ preview' = <<[p |-> r.preview[1], id |-> id, options |-> options]>>
                /\ last' = NoCall
           ELSE /\ preview' = <<>>
                /\ last' = [NoCall EXCEPT !.op = "prepareFinish", !.id = id,
                                          !.error = r.error, !.options = options]
  /\ UNCHANGED <<files, current, clock>>
  /\ UNCHANGED lockVars

\* executeFinish(preview, options) on the preview just prepared, as
\* finishStitch and handleStitchFinish call it.
ExecuteFinish(failAt, rollbackFails) ==
  /\ preview # <<>>
  /\ failAt <= Len(preview[1].p.affected)
  /\ \A k \in rollbackFails : k < failAt
  /\ preview[1].p.forceRequired # "" => failAt = 0
  /\ LET held == preview[1]
         r == executeFinish(files, held.p, held.options, clock, failAt, rollbackFails)
     IN /\ files' = r.files
        /\ last' = [op |-> "executeFinish", id |-> held.id, error |-> r.error,
                    options |-> held.options, preview |-> <<held.p>>,
                    before |-> <<files>>, failAt |-> failAt,
                    rollbackFails |-> rollbackFails, finished |-> r.finished,
                    warnings |-> r.warnings,
                    autoDetectedStatus |-> r.autoDetectedStatus,
                    finalStatus |-> r.finalStatus, reads |-> r.reads,
                    supersededBy |-> held.options.supersededBy,
                    currentBefore |-> current, indexBefore |-> <<>>,
                    index |-> <<>>]
  /\ preview' = <<>>
  /\ UNCHANGED <<indexFile, current, clock>>
  /\ UNCHANGED lockVars

\* A caller that prepared a finish and does not execute it.
DiscardPreview ==
  /\ preview # <<>>
  /\ preview' = <<>>
  /\ UNCHANGED <<files, indexFile, current, clock, last>>
  /\ UNCHANGED lockVars

\* The caller takes the result (or the error) of the call.
Return ==
  /\ last # NoCall
  /\ last' = NoCall
  /\ UNCHANGED <<files, indexFile, current, clock, preview>>
  /\ UNCHANGED lockVars

Next ==
  \/ \E parentId \in {NoId} \cup {i \in Ids : files[i].exists} : CreateStitch(parentId)
  \/ \E id \in Ids, sha \in Shas : LinkCommit(id, sha)
  \/ \E id \in Ids, status \in StitchStatus : UpdateFrontmatter(id, [status |-> status])
  \/ \E id \in Ids, options \in FinishOptions : PrepareFinish(id, options)
  \/ \E failAt \in 0..MaxDocs : ExecuteFinish(failAt, {})
  \/ DiscardPreview
  \/ Return

Spec == Init /\ [][Next]_vars

\* --------------------------------------------- previews over git metadata
\* The hashes a staged diff can have.
MaxDiffs == 1
Diffs == 1..MaxDiffs

\* The statuses a frontmatter patch sets in SpecGit.
GitPatchStatus == {"open", "closed"}

\* loadStitch, then addStagedDiffFingerprint(repoRoot, doc) with a staged
\* diff that hashes to fingerprint.
LinkStagedDiff(id, fingerprint) ==
  /\ Idle
  /\ loadStitch(files, id).ok
  /\ files' = addStagedDiffFingerprint(files, id, loadStitch(files, id).doc,
                                       fingerprint, clock)
  /\ UNCHANGED <<indexFile, current, clock, preview, last>>
  /\ UNCHANGED lockVars

\* Documents with commit links and diff fingerprints, and the previews
\* prepareFinish computes for them.
NextGit ==
  \/ \E parentId \in {NoId} \cup {i \in Ids : files[i].exists} : CreateStitch(parentId)
  \/ \E id \in Ids, sha \in Shas : LinkCommit(id, sha)
  \/ \E id \in Ids, fingerprint \in Diffs : LinkStagedDiff(id, fingerprint)
  \/ \E id \in Ids, status \in GitPatchStatus : UpdateFrontmatter(id, [status |-> status])
  \/ \E id \in Ids, options \in FinishOptions : PrepareFinish(id, options)
  \/ DiscardPreview
  \/ Return

SpecGit == Init /\ [][NextGit]_vars

\* --------------------------------------------------- unloadable documents
\* The file of a stitch is damaged from outside the program: it no longer
\* parses.
CorruptFile(id) ==
  /\ Idle
  /\ files[id].exists
  /\ ~files[id].malformed
  /\ files' = [files EXCEPT ![id].malformed = TRUE]
  /\ UNCHANGED <<indexFile, current, clock, preview, last>>
  /\ UNCHANGED lockVars

UnloadableOptions == [status : {"undefined"}, supersededBy : {NoId}, force : BOOLEAN]

\* Previews over repositories in which files have become unparsable.
NextUnloadable ==
  \/ \E parentId \in {NoId} \cup {i \in Ids : files[i].exists} : CreateStitch(parentId)
  \/ \E id \in Ids, sha \in Shas : LinkCommit(id, sha)
  \/ \E id \in Ids : CorruptFile(id)
  \/ \E id \in Ids, options \in UnloadableOptions : PrepareFinish(id, options)
  \/ DiscardPreview
  \/ Return

SpecUnloadable == Init /\ [][NextUnloadable]_vars

\* ------------------------------------------------- superseding references
\* The ids a caller names as the superseding stitch: none, or the id of the
\* last stitch the repository comes to hold (no stitch until then).
SupersedingIds == {NoId, MaxDocs}

SupersedeOptions ==
  [status : {"undefined", "superseded"}, supersededBy : SupersedingIds, force : {TRUE}]

\* executeFinish(preview, {supersededBy}) on the preview just prepared: the
\* options of executeFinish are its caller's, whatever prepareFinish was given.
ExecuteFinishBy(supersededBy) ==
  /\ preview # <<>>
  /\ LET held == preview[1]
         options == [held.options EXCEPT !.supersededBy = supersededBy]
         r == executeFinish(files, held.p, options, clock, 0, {})
     IN /\ files' = r.files
        /\ last' = [op |-> "executeFinish", id |-> held.id, error |-> r.error,
                    options |-> held.options, preview |-> <<held.p>>,
                    before |-> <<files>>, failAt |-> 0,
                    rollbackFails |-> {}, finished |-> r.finished,
                    warnings |-> r.warnings,
                    autoDetectedStatus |-> r.autoDetectedStatus,
                    finalStatus |-> r.finalStatus, reads |-> r.reads,
                    supersededBy |-> supersededBy,
                    currentBefore |-> current, indexBefore |-> <<>>,
                    index |-> <<>>]
  /\ preview' = <<>>
  /\ UNCHANGED <<indexFile, current, clock>>
  /\ UNCHANGED lockVars

\* Finishes that name a superseding stitch.
NextSupersede ==
  \/ \E parentId \in {NoId} \cup {i \in Ids : files[i].exists} : CreateStitch(parentId)
  \/ \E id \in Ids, options \in SupersedeOptions : PrepareFinish(id, options)
  \/ \E supersededBy \in SupersedingIds : ExecuteFinishBy(supersededBy)
  \/ DiscardPreview
  \/ Return

SpecSupersede == Init /\ [][NextSupersede]_vars

\* ------------------------------------------- handlers.ts: calls in flight
\* acquireMutexRef: the entry of stitchId, made with a new Mutex (fresh) when
\* there is none, with its refCount incremented.
acquireMutexRef(map, stitchId, fresh) ==
  LET entry == IF map[stitchId].present THEN map[stitchId]
               ELSE [present |-> TRUE, mutex |-> fresh, refCount |-> 0]
  IN [map EXCEPT ![stitchId] = [entry EXCEPT !.refCount = entry.refCount + 1]]

\* releaseMutexRef deleting the entry whatever its refCount.
releaseMutexRefDeleting(map, stitchId) == [map EXCEPT ![stitchId] = NoMutexEntry]

\* releaseMutexRef: refCount decremented, the entry deleted at zero.
releaseMutexRef(map, stitchId) ==
  IF ~map[stitchId].present THEN map
  ELSE IF map[stitchId].refCount - 1 = 0
       THEN [map EXCEPT ![stitchId] = NoMutexEntry]
       ELSE [map EXCEPT ![stitchId].refCount = map[stitchId].refCount - 1]

\* Mutex.acquire as runExclusive calls it: the caller gets a free mutex at
\* once, and queues behind the holder otherwise.
acquire(ms, m, t) ==
  IF ms[m].holder = NoTask THEN [ms EXCEPT ![m].holder = t]
  ELSE [ms EXCEPT ![m].queue = Append(ms[m].queue, t)]

\* The release at the end of runExclusive: the first waiter becomes holder.
release(ms, m) ==
  IF ms[m].queue = <<>> THEN [ms EXCEPT ![m].holder = NoTask]
  ELSE [ms EXCEPT ![m] = [holder |-> Head(ms[m].queue), queue |-> Tail(ms[m].queue)]]

\* holdsMutex with the callback not waiting for the mutex.
holdsMutexWithoutWaiting(ms, m, t) == TRUE

\* runExclusive runs the callback of t once acquire has resolved for it.
holdsMutex(ms, m, t) == ms[m].holder = t

\* A Mutex slot no map entry and no call refers to.
unreferenced(m) ==
  /\ \A i \in Ids : ~(mutexMap[i].present /\ mutexMap[i].mutex = m)
  /\ \A t \in Tasks : tasks[t].mutex # m

\* The handlers that run their callback under withStitchLock.
LockedKinds == {"updateFrontmatter", "updateBody", "linkCommit"}

\* The calls clients make in SpecLock.
LockCalls ==
  {[kind |-> "updateFrontmatter", arg |-> [NoArg EXCEPT !.status = "open"]],
   [kind |-> "updateBody", arg |-> [NoArg EXCEPT !.body = 1]],
   [kind |-> "finish", arg |-> [NoArg EXCEPT !.force = TRUE]]}
  \cup {[kind |-> "linkCommit", arg |-> [NoArg EXCEPT !.sha = sha]] : sha \in Shas}

finishOptions(arg) == [status |-> arg.status, supersededBy |-> NoId, force |-> arg.force]

\* A client calls a handler; the handler awaits validateRepoRoot.
HandlerCall(t, kind, id, arg) ==
  /\ tasks[t].pc = "idle"
  /\ files[id].exists
  /\ tasks' = [tasks EXCEPT ![t] = [IdleTask EXCEPT !.kind = kind, !.id = id,
                                                    !.pc = "called", !.arg = arg]]
  /\ UNCHANGED <<files, indexFile, current, clock, preview, last, mutexMap, mutexes>>

\* withStitchLock up to its await: acquireMutexRef(stitchId), then
\* mutex.runExclusive(fn) asks for the mutex.
WithStitchLock(t) ==
  /\ tasks[t].pc = "called"
  /\ tasks[t].kind \in LockedKinds
  /\ mutexMap[tasks[t].id].present \/ \E m \in Mutexes : unreferenced(m)
  /\ LET id == tasks[t].id
         created == ~mutexMap[id].present
         fresh == IF created
                  THEN CHOOSE m \in Mutexes :
                         unreferenced(m) /\ \A n \in Mutexes : n < m => ~unreferenced(n)
                  ELSE NoMutex
         map == acquireMutexRef(mutexMap, id, fresh)
         mutex == map[id].mutex
         ms == IF created THEN [mutexes EXCEPT ![mutex] = FreeMutex] ELSE mutexes
     IN /\ mutexMap' = map
        /\ mutexes' = acquire(ms, mutex, t)
        /\ tasks' = [tasks EXCEPT ![t].pc = "waiting", ![t].mutex = mutex]
  /\ UNCHANGED <<files, indexFile, current, clock, preview, last>>

\* The callback starts once its call holds the mutex: loadStitch.
LoadStitch(t) ==
  /\ tasks[t].pc = "waiting"
  /\ holdsMutex(mutexes, tasks[t].mutex, t)
  /\ LET loaded == loadStitch(files, tasks[t].id)
     IN tasks' = [tasks EXCEPT ![t].pc = IF loaded.ok THEN "loaded" ELSE "saved",
                               ![t].doc = loaded.doc]
  /\ UNCHANGED <<files, indexFile, current, clock, preview, last, mutexMap, mutexes>>

\* The rest of the callback: the loaded document is changed and saved.
SaveStitch(t) ==
  /\ tasks[t].pc = "loaded"
  /\ LET id == tasks[t].id
         doc == tasks[t].doc
         arg == tasks[t].arg
     IN files' =
          IF tasks[t].kind = "updateFrontmatter"
          THEN handleStitchUpdateFrontmatter(files, id, doc, [status |-> arg.status], clock)
          ELSE IF tasks[t].kind = "updateBody"
          THEN handleStitchUpdateBody(files, id, doc, arg.body, clock)
          ELSE addLink(files, id, doc, arg.sha, clock)
  /\ tasks' = [tasks EXCEPT ![t].pc = "saved", ![t].doc = NoFile]
  /\ UNCHANGED <<indexFile, current, clock, preview, last, mutexMap, mutexes>>

\* runExclusive releases the mutex when the callback has settled.
RunExclusiveRelease(t) ==
  /\ tasks[t].pc = "saved"
  /\ mutexes' = release(mutexes, tasks[t].mutex)
  /\ tasks' = [tasks EXCEPT ![t].pc = "released"]
  /\ UNCHANGED <<files, indexFile, current, clock, preview, last, mutexMap>>

\* The finally of withStitchLock: releaseMutexRef(stitchId); the call ends.
ReleaseMutexRef(t) ==
  /\ tasks[t].pc = "released"
  /\ mutexMap' = releaseMutexRef(mutexMap, tasks[t].id)
  /\ tasks' = [tasks EXCEPT ![t] = IdleTask]
  /\ UNCHANGED <<files, indexFile, current, clock, preview, last, mutexes>>

\* handleStitchFinish, first await: prepareFinish. No lock is taken.
FinishPrepare(t) ==
  /\ tasks[t].pc = "called"
  /\ tasks[t].kind = "finish"
  /\ LET r == prepareFinish(files, indexFile, tasks[t].id, finishOptions(tasks[t].arg))
     IN /\ indexFile' = r.indexFile
        /\ tasks' = IF r.error = ""
                    THEN [tasks EXCEPT ![t].pc = "prepared", ![t].held = r.preview]
                    ELSE [tasks EXCEPT ![t] = IdleTask]
  /\ UNCHANGED <<files, current, clock, preview, last, mutexMap, mutexes>>

\* The pointer test with the membership in result.finished left out.
clearsCurrentWhenSet(currentId, finished) == currentId # NoId

\* "Clear current pointer if the finished stitch was current": the test
\* currentId && result.finished.some((f) => f.id === currentId).
clearsCurrent(currentId, finished) ==
  /\ currentId # NoId
  /\ \E i \in 1..Len(finished) : finished[i].id = currentId

\* handleStitchFinish, the rest: executeFinish on the preview, then the
\* current pointer is cleared when a finished stitch was current.
FinishExecute(t) ==
  /\ tasks[t].pc = "prepared"
  /\ LET r == executeFinish(files, tasks[t].held[1], finishOptions(tasks[t].arg),
                            clock, 0, {})
     IN /\ files' = r.files
        /\ current' = IF r.error = "" /\ clearsCurrent(current, r.finished)
                      THEN NoId ELSE current
  /\ tasks' = [tasks EXCEPT ![t] = IdleTask]
  /\ UNCHANGED <<indexFile, clock, preview, last, mutexMap, mutexes>>

\* One MCP server process over a repository that holds a stitch and a child
\* of it, serving overlapping handler calls.
InitLock ==
  /\ files = createStitch(createStitch([i \in Ids |-> NoFile], 0, NoId), 0, 1)
  /\ indexFile = NoIndexFile
  /\ current = NoId
  /\ clock = 0
  /\ preview = <<>>
  /\ last = NoCall
  /\ mutexMap = NoMutexMap
  /\ mutexes = [m \in Mutexes |-> FreeMutex]
  /\ tasks = NoTasks

NextLock ==
  \/ \E t \in Tasks, call \in LockCalls, id \in Ids : HandlerCall(t, call.kind, id, call.arg)
  \/ \E t \in Tasks : WithStitchLock(t)
  \/ \E t \in Tasks : LoadStitch(t)
  \/ \E t \in Tasks : SaveStitch(t)
  \/ \E t \in Tasks : RunExclusiveRelease(t)
  \/ \E t \in Tasks : ReleaseMutexRef(t)
  \/ \E t \in Tasks : FinishPrepare(t)
  \/ \E t \in Tasks : FinishExecute(t)

SpecLock == InitLock /\ [][NextLock]_vars

\* ------------------------------------------------------ concurrent links
\* One distinct existing commit per call in flight.
LinkShas == 1..MaxTasks

\* Overlapping handleStitchLinkCommit calls only.
NextLinks ==
  \/ \E t \in Tasks, id \in Ids, sha \in LinkShas :
       HandlerCall(t, "linkCommit", id, [NoArg EXCEPT !.sha = sha])
  \/ \E t \in Tasks : WithStitchLock(t)
  \/ \E t \in Tasks : LoadStitch(t)
  \/ \E t \in Tasks : SaveStitch(t)
  \/ \E t \in Tasks : RunExclusiveRelease(t)
  \/ \E t \in Tasks : ReleaseMutexRef(t)

SpecLinks == InitLock /\ [][NextLinks]_vars

\* ------------------------------------------------- callbacks that throw
\* A client calls a handler with the id of a stitch that has no file: the
\* loadStitch of its callback will throw StitchNotFoundError.
HandlerCallMissing(t, kind, id, arg) ==
  /\ tasks[t].pc = "idle"
  /\ ~files[id].exists
  /\ tasks' = [tasks EXCEPT ![t] = [IdleTask EXCEPT !.kind = kind, !.id = id,
                                                    !.pc = "called", !.arg = arg]]
  /\ UNCHANGED <<files, indexFile, current, clock, preview, last, mutexMap, mutexes>>

\* The calls of this specification.
MutexCalls ==
  {[kind |-> "updateBody", arg |-> [NoArg EXCEPT !.body = 1]],
   [kind |-> "linkCommit", arg |-> [NoArg EXCEPT !.sha = 1]]}

\* Overlapping calls under withStitchLock, on stitches that exist and on
\* ids that do not.
NextMutex ==
  \/ \E t \in Tasks, call \in MutexCalls, id \in Ids : HandlerCall(t, call.kind, id, call.arg)
  \/ \E t \in Tasks, call \in MutexCalls, id \in Ids :
       HandlerCallMissing(t, call.kind, id, call.arg)
  \/ \E t \in Tasks : WithStitchLock(t)
  \/ \E t \in Tasks : LoadStitch(t)
  \/ \E t \in Tasks : SaveStitch(t)
  \/ \E t \in Tasks : RunExclusiveRelease(t)
  \/ \E t \in Tasks : ReleaseMutexRef(t)

SpecMutex == InitLock /\ [][NextMutex]_vars

\* -------------------------------------------------- the current pointer
\* stitch switch <id> of the CLI: loadStitch verifies the stitch, then
\* setCurrentStitchId(root, id).
SwitchStitch(id) ==
  /\ Idle
  /\ loadStitch(files, id).ok
  /\ current # id
  /\ current' = id
  /\ UNCHANGED <<files, indexFile, clock, preview, last>>
  /\ UNCHANGED lockVars

\* handleStitchFinish as one call. stitchId = NoId: input.stitchId is not
\* given and requireCurrentStitchId supplies it. An error thrown by
\* prepareFinish or executeFinish leaves the handler before the pointer is
\* looked at.
handleStitchFinish(fs, idx, currentId, stitchId, options, now, failAt) ==
  LET id == IF stitchId = NoId THEN currentId ELSE stitchId
      prepared == prepareFinish(fs, idx, id, options)
  IN IF id = NoId
     THEN [error |-> "NoCurrentStitchError", files |-> fs, indexFile |-> idx,
           current |-> currentId, id |-> id, finished |-> <<>>, preview |-> <<>>]
     ELSE IF prepared.error # ""
     THEN [error |-> prepared.error, files |-> fs, indexFile |-> prepared.indexFile,
           current |-> currentId, id |-> id, finished |-> <<>>, preview |-> <<>>]
     ELSE LET result == executeFinish(fs, prepared.preview[1], options, now, failAt, {})
          IN [error |-> result.error, files |-> result.files,
              indexFile |-> prepared.indexFile,
              current |-> IF result.error = "" /\ clearsCurrent(currentId, result.finished)
                          THEN NoId ELSE currentId,
              id |-> id, finished |-> result.finished, preview |-> prepared.preview]

\* One stitch_finish tool call, with no other call in flight.
HandleStitchFinish(stitchId, options, failAt) ==
  /\ Idle
  /\ LET id == IF stitchId = NoId THEN current ELSE stitchId
         prepared == prepareFinish(files, indexFile, id, options)
     IN IF id = NoId \/ prepared.error # "" THEN failAt = 0
        ELSE /\ failAt <= Len(prepared.preview[1].affected)
             /\ prepared.preview[1].forceRequired # "" => failAt = 0
  /\ LET r == handleStitchFinish(files, indexFile, current, stitchId, options,
                                 clock, failAt)
     IN /\ files' = r.files
        /\ indexFile' = r.indexFile
        /\ current' = r.current
        /\ last' = [NoCall EXCEPT !.op = "handleStitchFinish", !.id = r.id,
                                  !.error = r.error, !.options = options,
                                  !.preview = r.preview, !.before = <<files>>,
                                  !.failAt = failAt, !.finished = r.finished,
                                  !.currentBefore = current]
  /\ UNCHANGED <<clock, preview>>
  /\ UNCHANGED lockVars

\* The options of the finishes of this specification.
CurrentOptions ==
  [status : {"undefined", "abandoned"}, supersededBy : {NoId}, force : BOOLEAN]

\* The CLI moves the pointer; finishes come through the engine and through
\* the stitch_finish tool.
NextCurrent ==
  \/ \E parentId \in {NoId} \cup {i \in Ids : files[i].exists} : CreateStitch(parentId)
  \/ \E id \in Ids : SwitchStitch(id)
  \/ \E id \in Ids, options \in CurrentOptions : PrepareFinish(id, options)
  \/ \E failAt \in 0..MaxDocs : ExecuteFinish(failAt, {})
  \/ DiscardPreview
  \/ \E stitchId \in Ids \cup {NoId}, options \in CurrentOptions, failAt \in 0..MaxDocs :
       HandleStitchFinish(stitchId, options, failAt)
  \/ Return

SpecCurrent == Init /\ [][NextCurrent]_vars

\* ------------------------------------------------------ a clock that runs
\* new Date() between the calls: the clock moves on, never back.
Tick ==
  /\ last = NoCall
  /\ clock < MaxClock
  /\ clock' = clock + 1
  /\ UNCHANGED <<files, indexFile, current, preview, last>>
  /\ UNCHANGED lockVars

\* The options of the finishes of this specification.
ClockOptions == [status : {"undefined"}, supersededBy : {NoId}, force : {TRUE}]

\* Creation, links, frontmatter updates (a reopening included) and finishes
\* that succeed or fail at some write, with rollback rewrites that may fail
\* too, while the clock runs.
NextClock ==
  \/ Tick
  \/ \E parentId \in {NoId} \cup {i \in Ids : files[i].exists} : CreateStitch(parentId)
  \/ \E id \in Ids, sha \in Shas : LinkCommit(id, sha)
  \/ \E id \in Ids : UpdateFrontmatter(id, [status |-> "open"])
  \/ \E id \in Ids, options \in ClockOptions : PrepareFinish(id, options)
  \/ \E failAt \in 0..MaxDocs, rollbackFails \in {{}, {1}} :
       ExecuteFinish(failAt, rollbackFails)
  \/ DiscardPreview
  \/ Return

SpecClock == Init /\ [][NextClock]_vars

\* ------------------------------------------------ rollbacks that fail too
\* The options of the finishes of this specification.
RollbackOptions == [status : {"undefined", "abandoned"}, supersededBy : {NoId}, force : {TRUE}]

\* Finishes whose k-th write fails, with any of the rollback rewrites
\* failing as well.
NextRollback ==
  \/ \E parentId \in {NoId} \cup {i \in Ids : files[i].exists} : CreateStitch(parentId)
  \/ \E id \in Ids, options \in RollbackOptions : PrepareFinish(id, options)
  \/ \E failAt \in 0..MaxDocs, rollbackFails \in SUBSET (1..(MaxDocs - 1)) :
       ExecuteFinish(failAt, rollbackFails)
  \/ DiscardPreview
  \/ Return

SpecRollback == Init /\ [][NextRollback]_vars

\* ------------------------------------------ getDescendants, step by step
\* The ids of S, ascending.
RECURSIVE listOf(_)
listOf(S) ==
  IF S = {} THEN <<>>
  ELSE LET least == CHOOSE x \in S : \A y \in S : x <= y
       IN <<least>> \o listOf(S \ {least})

\* The children maps an index.json of version 1 can hold: loadIndex checks
\* the version tag only, so any child list per id is taken as it is, a node
\* under itself, under its descendant or under two parents included.
ChildrenMaps == [Ids -> {listOf(S) : S \in SUBSET Ids}]

\* getDescendants before its loop: descendants = [], queue = [id],
\* visited = new Set(). expanded lists the ids whose child list the loop
\* has read.
startWalk(index, id) ==
  [children |-> index.children, queue |-> <<id>>, visited |-> {},
   descendants |-> <<>>, expanded |-> <<>>]

\* The loop body with the visited test left out.
walkStepRevisiting(w) ==
  LET currentId == Head(w.queue)
  IN [w EXCEPT !.queue = Tail(w.queue) \o w.children[currentId],
               !.visited = w.visited \cup {currentId},
               !.descendants = w.descendants \o w.children[currentId],
               !.expanded = Append(w.expanded, currentId)]

\* One iteration of the while loop of getDescendants.
walkStep(w) ==
  LET currentId == Head(w.queue)
  IN IF currentId \in w.visited
     THEN [w EXCEPT !.queue = Tail(w.queue)]
     ELSE [w EXCEPT !.queue = Tail(w.queue) \o w.children[currentId],
                    !.visited = w.visited \cup {currentId},
                    !.descendants = w.descendants \o w.children[currentId],
                    !.expanded = Append(w.expanded, currentId)]

\* getDescendants(repoRoot, id) is called: the index is loaded.
GetDescendants(t, id) ==
  /\ \A u \in Tasks : tasks[u].pc = "idle"
  /\ tasks' = [tasks EXCEPT ![t] = [IdleTask EXCEPT !.kind = "getDescendants",
                                                    !.id = id, !.pc = "walking",
                                                    !.held = <<startWalk(getIndex(files, indexFile), id)>>]]
  /\ UNCHANGED <<files, indexFile, current, clock, preview, last, mutexMap, mutexes>>

\* while (queue.length > 0): one iteration.
WalkStep(t) ==
  /\ tasks[t].pc = "walking"
  /\ tasks[t].held[1].queue # <<>>
  /\ tasks' = [tasks EXCEPT ![t].held = <<walkStep(tasks[t].held[1])>>]
  /\ UNCHANGED <<files, indexFile, current, clock, preview, last, mutexMap, mutexes>>

\* The queue is empty: return descendants.
WalkReturn(t) ==
  /\ tasks[t].pc = "walking"
  /\ tasks[t].held[1].queue = <<>>
  /\ tasks' = [tasks EXCEPT ![t].pc = "walked"]
  /\ UNCHANGED <<files, indexFile, current, clock, preview, last, mutexMap, mutexes>>

\* The caller takes the list.
TakeDescendants(t) ==
  /\ tasks[t].pc = "walked"
  /\ tasks' = [tasks EXCEPT ![t] = IdleTask]
  /\ UNCHANGED <<files, indexFile, current, clock, preview, last, mutexMap, mutexes>>

\* A repository whose index.json holds any children map.
InitDescendants ==
  /\ files = [i \in Ids |-> NoFile]
  /\ indexFile \in [exists : {TRUE}, parses : {TRUE}, version : {INDEX_VERSION},
                   children : ChildrenMaps]
  /\ current = NoId
  /\ clock = 0
  /\ preview = <<>>
  /\ last = NoCall
  /\ mutexMap = NoMutexMap
  /\ mutexes = [m \in Mutexes |-> FreeMutex]
  /\ tasks = NoTasks

NextDescendants ==
  \/ \E t \in Tasks, id \in Ids : GetDescendants(t, id)
  \/ \E t \in Tasks : WalkStep(t)
  \/ \E t \in Tasks : WalkReturn(t)
  \/ \E t \in Tasks : TakeDescendants(t)

SpecDescendants == InitDescendants /\ [][NextDescendants]_vars

\* The loop is not suspended for ever: it has no await in it.
SpecDescendantsLive ==
  /\ SpecDescendants
  /\ WF_vars(\E t \in Tasks : WalkStep(t))
  /\ WF_vars(\E t \in Tasks : WalkReturn(t))

\* ------------------------------------------------- index files gone bad
\* The version tags an index.json may carry: this one and another.
IndexVersions == {INDEX_VERSION, INDEX_VERSION + 1}

\* The children maps of those files: empty, or one child under one parent,
\* whether or not any document says so.
IndexChildren ==
  {EmptyChildren} \cup {[EmptyChildren EXCEPT ![p] = <<c>>] : p \in Ids, c \in Ids}

\* What may lie at .stitch/index.json before the first call of a run: no
\* file, or a file that parses or does not, of either version.
IndexFiles ==
  {NoIndexFile}
  \cup [exists : {TRUE}, parses : BOOLEAN, version : IndexVersions,
        children : IndexChildren]

\* getIndex(repoRoot): the index it returns is what index.json holds after
\* the call, rebuildIndex having saved a rebuilt one.
GetIndex ==
  /\ Idle
  /\ LET index == getIndex(files, indexFile)
     IN /\ indexFile' = index
        /\ last' = [NoCall EXCEPT !.op = "getIndex", !.before = <<files>>,
                                  !.indexBefore = <<indexFile>>, !.index = <<index>>]
  /\ UNCHANGED <<files, current, clock, preview>>
  /\ UNCHANGED lockVars

\* rebuildIndex(repoRoot): the index is built from the files and saved.
RebuildIndex ==
  /\ Idle
  /\ LET index == rebuildIndex(files)
     IN /\ indexFile' = index
        /\ last' = [NoCall EXCEPT !.op = "rebuildIndex", !.before = <<files>>,
                                  !.indexBefore = <<indexFile>>, !.index = <<index>>]
  /\ UNCHANGED <<files, current, clock, preview>>
  /\ UNCHANGED lockVars

\* createStitch(repoRoot, title, parentId) with any parentId but the id the
\* new stitch is about to get: the parent is not looked up.
CreateStitchUnder(parentId) ==
  /\ \E i \in Ids : ~files[i].exists
  /\ parentId # generateStitchId(files)
  /\ CreateStitch(parentId)

InitIndex ==
  /\ files = [i \in Ids |-> NoFile]
  /\ indexFile \in IndexFiles
  /\ current = NoId
  /\ clock = 0
  /\ preview = <<>>
  /\ last = NoCall
  /\ mutexMap = NoMutexMap
  /\ mutexes = [m \in Mutexes |-> FreeMutex]
  /\ tasks = NoTasks

\* Stitches are created, under a parent id that need not be the id of a
\* stitch (createStitch does not look it up), and their files damaged, over
\* whatever index file was there, and the index is asked for or rebuilt.
NextIndex ==
  \/ \E parentId \in {NoId} \cup Ids : CreateStitchUnder(parentId)
  \/ \E id \in Ids : CorruptFile(id)
  \/ GetIndex
  \/ RebuildIndex
  \/ Return

SpecIndex == InitIndex /\ [][NextIndex]_vars

\* ================================================================ claims
\* The status prepareFinish takes as requested: options.status, "closed" by
\* default.
requestedStatus(options) == IF options.status = "undefined" THEN "closed" ELSE options.status

affectedIds(p) == {p.affected[i].id : i \in 1..Len(p.affected)}

\* relations.parent of d, followed upwards, reaches anc.
RECURSIVE parentChainReaches(_, _, _, _)
parentChainReaches(fs, d, anc, fuel) ==
  /\ fuel > 0
  /\ fs[d].exists
  /\ fs[d].parent # NoId
  /\ \/ fs[d].parent = anc
     \/ parentChainReaches(fs, fs[d].parent, anc, fuel - 1)

\* C1: when a write of executeFinish fails after at least one affected file
\* was written, and every rollback rewrite succeeds, executeFinish rejects
\* with the write error and every affected file has the content it had when
\* executeFinish started.
C1_AllOrNothing ==
  (last.op = "executeFinish" /\ last.failAt >= 2 /\ last.rollbackFails = {})
  => /\ last.error = "write failed"
     /\ \A id \in affectedIds(last.preview[1]) : files[id] = last.before[1][id]

\* C1 witness: the third write failed after two files whose status was to
\* change had been written.
C1_Witness ==
  /\ last.op = "executeFinish"
  /\ last.failAt = 3
  /\ last.rollbackFails = {}
  /\ \A i \in 1..2 :
       last.before[1][last.preview[1].affected[i].id].status # last.preview[1].finalStatus

\* C2: after a successful executeFinish with force of a target that has open
\* descendants by relations.parent, the target and every such descendant
\* whose status differed from finalStatus have finalStatus, and no document
\* outside the target's subtree is modified.
C2_CascadeConsistency ==
  (/\ last.op = "executeFinish"
   /\ last.error = ""
   /\ last.options.force
   /\ \E d \in Ids : /\ parentChainReaches(last.before[1], d, last.id, MaxDocs)
                     /\ last.before[1][d].status = "open")
  => /\ files[last.id].status = last.finalStatus
     /\ \A d \in Ids :
          (/\ parentChainReaches(last.before[1], d, last.id, MaxDocs)
           /\ last.before[1][d].status # last.finalStatus)
          => files[d].status = last.finalStatus
     /\ \A d \in Ids :
          (d # last.id /\ ~parentChainReaches(last.before[1], d, last.id, MaxDocs))
          => files[d] = last.before[1][d]

\* The scenario of C6: executeFinish succeeded on the preview of
\* prepareFinish(P, {force: true}) where P has a linked commit and the
\* preview's affected list holds an open child c of P.
forcedCascadeOf(c) ==
  /\ last.op = "executeFinish"
  /\ last.error = ""
  /\ last.options = [status |-> "undefined", supersededBy |-> NoId, force |-> TRUE]
  /\ hasLinkedCommits(last.before[1][last.id])
  /\ c # last.id
  /\ c \in affectedIds(last.preview[1])
  /\ last.before[1][c].parent = last.id
  /\ last.before[1][c].status = "open"

\* C6 as the claim states it: for a parent P with one linked commit and an
\* open child C, prepareFinish(P, {force: true}) gives finalStatus
\* "abandoned", and after executeFinish both P and C are abandoned.
C6_ForcedCascadeAbandons ==
  \A c \in Ids :
    forcedCascadeOf(c)
    => /\ last.preview[1].finalStatus = "abandoned"
       /\ files[last.id].status = "abandoned"
       /\ files[c].status = "abandoned"

\* C6 amended: for a parent P with a linked commit and an open child C that
\* prepareFinish loads, prepareFinish(P, {force: true}) keeps the default
\* requested status "closed" as finalStatus, does not auto-detect, sets no
\* forceRequired and carries the forcing warning; after executeFinish both P
\* and C are closed.
C6_ForcedCascadeCloses ==
  \A c \in Ids :
    forcedCascadeOf(c)
    => /\ last.preview[1].finalStatus = "closed"
       /\ ~last.preview[1].autoDetected
       /\ last.preview[1].forceRequired = ""
       /\ \E i \in 1..Len(last.warnings) :
            last.warnings[i].kind = "Forcing status as requested"
       /\ files[last.id].status = "closed"
       /\ files[c].status = "closed"

\* C6 witness: the forced finish of a linked parent with an open child ran
\* and wrote both files.
C6_Witness ==
  \E c \in Ids :
    /\ forcedCascadeOf(c)
    /\ last.before[1][last.id].status = "open"
    /\ files[last.id].status = "closed"
    /\ files[c].status = "closed"

\* C7: executeFinish on a preview whose forceRequired is set throws
\* FinishForceRequiredError, has read no document and has written none, so no
\* partial cascade exists.
C7_ForceRequiredGate ==
  (last.op = "executeFinish" /\ last.preview[1].forceRequired # "")
  => /\ last.error = "FinishForceRequiredError"
     /\ last.reads = {}
     /\ files = last.before[1]
     /\ last.finished = <<>>

\* C7 witness: executeFinish threw on a preview with forceRequired set whose
\* affected list holds the target and an open descendant.
C7_Witness ==
  /\ last.op = "executeFinish"
  /\ last.error = "FinishForceRequiredError"
  /\ last.preview[1].forceRequired # ""
  /\ ~last.options.force
  /\ Len(last.preview[1].affected) >= 2
  /\ \E i \in 2..Len(last.preview[1].affected) :
       files[last.preview[1].affected[i].id].status = "open"

\* C8: prepareFinish then executeFinish (finishStitch) with no status and no
\* force, on a stitch without linked commits or with an open loaded
\* descendant, completes without error, writes "abandoned" to the target and
\* reports autoDetectedStatus = true.
C8_DefaultFinishAutoAbandons ==
  (/\ last.op = "executeFinish"
   /\ last.options = [status |-> "undefined", supersededBy |-> NoId, force |-> FALSE]
   /\ last.failAt = 0
   /\ \/ ~hasLinkedCommits(last.before[1][last.id])
      \/ \E i \in 2..Len(last.preview[1].affected) :
           last.preview[1].affected[i].doc.status = "open")
  => /\ last.error = ""
     /\ files[last.id].status = "abandoned"
     /\ last.autoDetectedStatus

\* C9: every change of a document's status, over any sequence of create,
\* finish and update-frontmatter steps, is a pair of the legality table; no
\* document with a terminal status returns to open.
C9_OnlyLegalTransitions ==
  [][\A d \in Ids :
       (files[d].exists /\ files'[d].exists /\ files'[d].status # files[d].status)
       => <<files[d].status, files'[d].status>> \in LegalTransitions]_vars

\* C10 as the claim states it: a finish that succeeds on a document whose
\* pair (previousStatus, newStatus) is not in the legality table was given
\* the override and carries a warning.
C10_IllegalNeedsOverride ==
  (last.op = "executeFinish" /\ last.error = "")
  => \A i \in 1..Len(last.finished) :
       <<last.finished[i].previousStatus, last.finished[i].newStatus>> \notin LegalTransitions
       => (last.options.force /\ last.warnings # <<>>)

\* C10 amended: a finish that succeeds never writes "open", every finished
\* document ends with the reported newStatus, and a pair outside the legality
\* table is only ever the self-transition of the target itself (the
\* descendants already at finalStatus are left out); that self-transition
\* needs neither override nor warning.
C10_IllegalIsTargetSelfTransition ==
  (last.op = "executeFinish" /\ last.error = "")
  => \A i \in 1..Len(last.finished) :
       /\ last.finished[i].newStatus \in TerminalStatus
       /\ files[last.finished[i].id].status = last.finished[i].newStatus
       /\ <<last.finished[i].previousStatus, last.finished[i].newStatus>> \notin LegalTransitions
          => /\ last.finished[i].previousStatus = last.finished[i].newStatus
             /\ last.finished[i].id = last.id

\* C10 witness: a closed target with a linked commit and a closed child was
\* finished as closed again without force and without a warning.
C10_Witness ==
  /\ last.op = "executeFinish"
  /\ last.error = ""
  /\ ~last.options.force
  /\ last.warnings = <<>>
  /\ last.before[1][last.id].status = "closed"
  /\ last.finalStatus = "closed"
  /\ \E c \in Ids : /\ c # last.id
                    /\ c \in {indexFile.children[last.id][k] : k \in 1..Len(indexFile.children[last.id])}
                    /\ files[c].status = "closed"


\* Some descendant of id, at any depth of the index the preview was computed
\* from, is a loadable document with status open.
openLoadedDescendant(fs, idx, id) ==
  LET descendantIds == getDescendants(idx, id)
  IN \E k \in 1..Len(descendantIds) :
       fs[descendantIds[k]].exists /\ fs[descendantIds[k]].status = "open"

\* An auto-abandon condition holds for the target of the held preview.
autoAbandonCondition ==
  \/ files[preview[1].id].links = {}
  \/ openLoadedDescendant(files, indexFile, preview[1].id)

C5_ForceKeepsRequestedStatus ==
  preview # <<>> =>
    LET p == preview[1].p
        options == preview[1].options
    IN (options.force /\ requestedStatus(options) # "abandoned" /\ autoAbandonCondition)
       => /\ p.finalStatus = requestedStatus(options)
          /\ ~p.autoDetected
          /\ p.forceRequired = ""
          /\ Cardinality({i \in 1..Len(p.warnings) :
                            p.warnings[i].kind = "Forcing status as requested"}) = 1
          /\ Cardinality({i \in 1..Len(p.warnings) :
                            p.warnings[i].kind # "Could not load descendant"}) = 1

\* C5 witness: a forced preview of a target without links and without
\* children in the index keeps "superseded" and has a warning list of
\* exactly one element.
C5_Witness ==
  /\ preview # <<>>
  /\ preview[1].options.force
  /\ preview[1].options.status = "superseded"
  /\ files[preview[1].id].links = {}
  /\ indexFile.children[preview[1].id] = <<>>
  /\ preview[1].p.finalStatus = "superseded"
  /\ Len(preview[1].p.warnings) = 1

\* The call of task t is inside its load-modify-write section: it has loaded
\* the document and has not yet written it.
inLoadModifyWrite(t) == tasks[t].pc \in {"loaded", "prepared"}

\* C3: no two handler calls in flight on the same stitch id (update
\* frontmatter, update body, link commit, finish) are inside their
\* load-modify-write sections at the same time.
C3_NoInterleaving ==
  \A t1, t2 \in Tasks :
    (t1 # t2 /\ tasks[t1].id = tasks[t2].id)
    => ~(inLoadModifyWrite(t1) /\ inLoadModifyWrite(t2))

\* C11: for every pair (from, to) of the legality table, a finish with
\* status = to and force = true of a document in status from, whose writes
\* all succeed, ends without error and leaves the document with status to;
\* and no successful finish leaves a finished document with status open.
C11_LegalPairsSucceedWithForce ==
  (last.op = "executeFinish" /\ last.failAt = 0)
  => /\ (/\ last.options.force
         /\ last.options.status \in TerminalStatus
         /\ <<last.before[1][last.id].status, last.options.status>> \in LegalTransitions)
        => /\ last.error = ""
           /\ files[last.id].status = last.options.status
     /\ last.error = ""
        => \A i \in 1..Len(last.finished) : files[last.finished[i].id].status # "open"

\* C11 witness: an abandoned document was finished as closed with force.
C11_Witness ==
  /\ last.op = "executeFinish"
  /\ last.error = ""
  /\ last.options.force
  /\ last.options.status = "closed"
  /\ last.before[1][last.id].status = "abandoned"
  /\ files[last.id].status = "closed"

\* The step is a call of prepareFinish: it leaves a preview or an error.
prepareFinishStep ==
  \/ preview = <<>> /\ preview' # <<>>
  \/ last = NoCall /\ last'.op = "prepareFinish"

\* C12: a prepareFinish call with supersededBy given and a requested status
\* other than superseded throws InvalidSupersededByError; with supersededBy
\* naming no stitch it throws; with a target that does not exist it throws
\* StitchNotFoundError; and whenever prepareFinish throws, no document file
\* and no index file has been written and no preview is left to execute.
C12_RejectionsBeforeAnyWrite ==
  [][prepareFinishStep =>
       LET options == IF preview' # <<>> THEN preview'[1].options ELSE last'.options
           id == IF preview' # <<>> THEN preview'[1].id ELSE last'.id
           by == options.supersededBy
           invalidBy == by # NoId /\ requestedStatus(options) # "superseded"
           missingBy == by # NoId /\ ~files[by].exists
       IN /\ invalidBy => last'.error = "InvalidSupersededByError"
          /\ (~invalidBy /\ missingBy) => last'.error = "StitchError"
          /\ (~invalidBy /\ ~missingBy /\ ~files[id].exists)
             => last'.error = "StitchNotFoundError"
          /\ last'.error # ""
             => /\ files' = files
                /\ indexFile' = indexFile
                /\ preview' = <<>>]_vars

\* C12 witness: prepareFinish threw for a superseding stitch that does not
\* exist, in a repository with a document and no index file yet.
C12_Witness ==
  /\ last.op = "prepareFinish"
  /\ last.error = "StitchError"
  /\ last.options.status = "superseded"
  /\ files[last.id].exists
  /\ ~indexFile.exists

\* C16: after a successful executeFinish given supersededBy = R, R occurs
\* exactly once in the target's depends_on, the depends_on of every other
\* document is as before, and every document whose depends_on gained a
\* reference has status superseded.
C16_SupersededByStorage ==
  (last.op = "executeFinish" /\ last.error = "" /\ last.supersededBy # NoId)
  => /\ Cardinality({k \in 1..Len(files[last.id].depends_on) :
                       files[last.id].depends_on[k] = last.supersededBy}) = 1
     /\ \A d \in Ids : d # last.id => files[d].depends_on = last.before[1][d].depends_on
     /\ \A d \in Ids : files[d].depends_on # last.before[1][d].depends_on
                       => files[d].status = "superseded"

\* C13 as the claim states it: a prepareFinish call, returning or throwing,
\* leaves every document file, the index file and the current pointer as
\* they were.
C13_PrepareWritesNothing ==
  [][prepareFinishStep
     => /\ files' = files
        /\ indexFile' = indexFile
        /\ current' = current]_vars

\* C13 amended: a prepareFinish call leaves every document file and the
\* current pointer as they were; it leaves a loadable index file as it was;
\* when there is no loadable index file, a call that throws leaves none and
\* a call that returns has saved the index rebuilt from the document files.
C13_PrepareWritesOnlyAMissingIndex ==
  [][prepareFinishStep
     => /\ files' = files
        /\ current' = current
        /\ loadIndex(indexFile).ok => indexFile' = indexFile
        /\ ~loadIndex(indexFile).ok
           => indexFile' = IF preview' # <<>> THEN rebuildIndex(files) ELSE indexFile]_vars

\* C13 witness: a preview was returned over an index file that an earlier
\* call had saved and that no longer matches the document files.
C13_Witness ==
  /\ preview # <<>>
  /\ indexFile.exists
  /\ indexFile.children # rebuildIndex(files).children

\* getChildren(id): the children of id in the index getIndex returns.
getChildren(fs, idx, id) == getIndex(fs, idx).children[id]

\* C14: in every state, each stitch c created with parent p is among
\* getChildren(p), and among getDescendants of p and of every ancestor of p.
C14_IndexHoldsEveryChild ==
  \A c \in Ids :
    (files[c].exists /\ files[c].parent # NoId)
    => /\ \E k \in 1..Len(getChildren(files, indexFile, files[c].parent)) :
            getChildren(files, indexFile, files[c].parent)[k] = c
       /\ \A a \in Ids :
            parentChainReaches(files, c, a, MaxDocs)
            => \E k \in 1..Len(getDescendants(getIndex(files, indexFile), a)) :
                 getDescendants(getIndex(files, indexFile), a)[k] = c

\* C15: with handleStitchLinkCommit calls overlapping on the same stitch,
\* the save of each call leaves its commit in git.links of the stitch and no
\* step removes a commit from any git.links; so once all calls have
\* completed, git.links holds the commit of every call.
C15_NoLostLink ==
  [][/\ \A d \in Ids : files[d].links \subseteq files'[d].links
     /\ \A t \in Tasks :
          (tasks[t].pc = "loaded" /\ tasks'[t].pc = "saved")
          => tasks[t].arg.sha \in files'[tasks[t].id].links]_vars

\* C15 witness: two calls for distinct commits on the same stitch are in
\* flight, both have saved, and git.links holds both commits.
C15_Witness ==
  \E t1, t2 \in Tasks :
    /\ t1 # t2
    /\ tasks[t1].kind = "linkCommit" /\ tasks[t2].kind = "linkCommit"
    /\ tasks[t1].id = tasks[t2].id
    /\ tasks[t1].arg.sha # tasks[t2].arg.sha
    /\ tasks[t1].pc = "released"
    /\ tasks[t2].pc = "saved"
    /\ {tasks[t1].arg.sha, tasks[t2].arg.sha} \subseteq files[tasks[t1].id].links

\* C17: a descendant listed in the index that cannot be loaded does not make
\* prepareFinish fail (only an unloadable target does); it is not in the
\* affected set, one warning names it, it does not count as an open
\* descendant, and every loadable descendant in the index whose status
\* differs from finalStatus, the children of the unloadable one included, is
\* in the affected set.
C17_UnloadableDescendantSkipped ==
  /\ last.op = "prepareFinish" => ~loadStitch(files, last.id).ok
  /\ preview # <<>> =>
       LET p == preview[1].p
           descendantIds == getDescendants(indexFile, preview[1].id)
           listed == {descendantIds[k] : k \in 1..Len(descendantIds)}
       IN /\ \A d \in listed :
               ~loadStitch(files, d).ok
               => /\ d \notin affectedIds(p)
                  /\ Cardinality({i \in 1..Len(p.warnings) :
                                    p.warnings[i] = [kind |-> "Could not load descendant",
                                                     id |-> d]}) = 1
          /\ \A d \in listed :
               (loadStitch(files, d).ok /\ files[d].status # p.finalStatus)
               => d \in affectedIds(p)
          /\ (/\ hasLinkedCommits(files[preview[1].id])
              /\ \A d \in listed : loadStitch(files, d).ok => files[d].status # "open")
             => /\ ~p.autoDetected
                /\ p.finalStatus = requestedStatus(preview[1].options)

\* C17 witness: a preview of a linked target whose only child in the index
\* cannot be loaded: the child is skipped, and nothing is auto-detected.
C17_Witness ==
  /\ preview # <<>>
  /\ hasLinkedCommits(files[preview[1].id])
  /\ ~preview[1].p.autoDetected
  /\ ~preview[1].options.force
  /\ \E d \in Ids :
       /\ indexFile.children[preview[1].id] = <<d>>
       /\ files[d].malformed
       /\ files[d].status = "open"
       /\ d \notin affectedIds(preview[1].p)

\* The finished documents of a call, as a set of ids.
finishedIds(call) == {call.finished[i].id : i \in 1..Len(call.finished)}

executeFinishStep == last = NoCall /\ last'.op = "executeFinish"

handleStitchFinishStep == last = NoCall /\ last'.op = "handleStitchFinish"

C20_UpdatedAtMonotone ==
  [][\A d \in Ids :
       files[d].exists =>
         files'[d].exists /\ files'[d].updated_at >= files[d].updated_at]_vars

\* A finish failed at its second write or later and rolled a document back
\* to the content it had, whose updated_at is older than the time of the
\* call.
C20_Witness ==
  /\ last.op = "executeFinish"
  /\ last.error = "write failed"
  /\ last.failAt >= 2
  /\ \E d \in affectedIds(last.preview[1]) :
       /\ files[d] = last.before[1][d]
       /\ files[d].updated_at < clock

\* C21: after a successful finish of P without force to closed or
\* superseded, no document whose relations.parent chain reaches P has status
\* open.
C21_NoOpenWorkSilentlyClosed ==
  (/\ last.op = "executeFinish"
   /\ last.error = ""
   /\ ~last.options.force
   /\ last.finalStatus \in {"closed", "superseded"})
  => \A d \in Ids :
       parentChainReaches(files, d, last.id, MaxDocs) => files[d].status # "open"

\* The finish of task t runs executeFinish in this step.
finishExecuteStep(t) ==
  tasks[t].kind = "finish" /\ tasks[t].pc = "prepared" /\ tasks'[t].pc = "idle"

\* C22: executeFinish leaves body, relations.parent, git links and
\* fingerprints of every affected document as they were on disk when it
\* started, and depends_on of every affected document other than the target,
\* also when another mutation was written after prepareFinish.
C22_FinishChangesOnlyWhatItMust ==
  [][\A t \in Tasks :
       finishExecuteStep(t) =>
         \A d \in affectedIds(tasks[t].held[1]) :
           /\ files'[d].body = files[d].body
           /\ files'[d].parent = files[d].parent
           /\ files'[d].links = files[d].links
           /\ files'[d].fingerprints = files[d].fingerprints
           /\ d # tasks[t].id => files'[d].depends_on = files[d].depends_on]_vars

\* The nodes that one or more steps through the children map lead to from
\* the nodes of frontier.
RECURSIVE reachableFrom(_, _, _)
reachableFrom(children, frontier, found) ==
  LET next == {c \in Ids : \E n \in frontier :
                 \E k \in 1..Len(children[n]) : children[n][k] = c}
  IN IF frontier = {} THEN found
     ELSE reachableFrom(children, next \ found, found \cup next)

occurrences(list, n) == Cardinality({k \in 1..Len(list) : list[k] = n})

\* C23: getDescendants(id) returns every node reachable from id through the
\* children map exactly once, no other node, and never id itself, for every
\* children map.
C23_DescendantsExactlyOnce ==
  \A t \in Tasks :
    tasks[t].pc = "walked" =>
      LET w == tasks[t].held[1]
          reachable == reachableFrom(w.children, {tasks[t].id}, {})
      IN /\ w.descendants = getDescendants(indexFile, tasks[t].id)
         /\ occurrences(w.descendants, tasks[t].id) = 0
         /\ \A n \in Ids \ {tasks[t].id} :
              occurrences(w.descendants, n) = IF n \in reachable THEN 1 ELSE 0

\* C24: getDescendants terminates on every children map, cycles included,
\* and reads the child list of each node at most once.
C24_WalkTerminates ==
  /\ [](\A t \in Tasks :
          tasks[t].pc \in {"walking", "walked"} =>
            \A n \in Ids : occurrences(tasks[t].held[1].expanded, n) <= 1)
  /\ \A t \in Tasks : (tasks[t].pc = "walking") ~> (tasks[t].pc = "walked")

\* The walk has returned over a map in which the start id is its own
\* descendant: the loop met the cycle and left it.
C24_Witness ==
  \E t \in Tasks :
    /\ tasks[t].pc = "walked"
    /\ tasks[t].id \in reachableFrom(indexFile.children, {tasks[t].id}, {})
    /\ \E n \in Ids \ {tasks[t].id} :
         n \in reachableFrom(indexFile.children, {tasks[t].id}, {})

\* C25: when a write of executeFinish fails and some rollback rewrites fail
\* as well, executeFinish still rejects with the write error, every written
\* file whose rewrite did not fail has its original content again, a file
\* whose rewrite failed keeps the new content, and the files not yet written
\* are untouched.
C25_BestEffortRollback ==
  (last.op = "executeFinish" /\ last.failAt >= 1)
  => LET p == last.preview[1]
         updates == finishUpdates(last.before[1], p, last.options.supersededBy, clock)
     IN /\ last.error = "write failed"
        /\ \A i \in 1..Len(p.affected) :
             files[p.affected[i].id] =
               IF i < last.failAt /\ i \in last.rollbackFails
               THEN updates[i].newContent
               ELSE last.before[1][p.affected[i].id]

\* The third write failed, the rewrite of the first file failed too and left
\* the new content there, and the second file, whose content the finish had
\* changed, has its original content again.
C25_Witness ==
  /\ last.op = "executeFinish"
  /\ last.error = "write failed"
  /\ last.failAt = 3
  /\ last.rollbackFails = {1}
  /\ files[last.preview[1].affected[1].id] # last.before[1][last.preview[1].affected[1].id]
  /\ files[last.preview[1].affected[2].id] = last.before[1][last.preview[1].affected[2].id]
  /\ last.before[1][last.preview[1].affected[2].id].status # last.preview[1].finalStatus

\* C26: the affected list of a preview is the target followed by the loaded
\* descendants, in the order of getDescendants, whose status differs from
\* finalStatus; a successful executeFinish leaves every affected file with
\* finalStatus and the time of the call, and every other file as it was.
C26_AffectedSet ==
  /\ preview # <<>> =>
       LET p == preview[1].p
           descendantIds == getDescendants(getIndex(files, indexFile), preview[1].id)
           differing == SelectSeq(descendantIds,
                                  LAMBDA d : /\ loadStitch(files, d).ok
                                             /\ files[d].status # p.finalStatus)
       IN [i \in 1..Len(p.affected) |-> p.affected[i].id] = <<preview[1].id>> \o differing
  /\ (last.op = "executeFinish" /\ last.error = "") =>
       \A d \in Ids :
         IF d \in affectedIds(last.preview[1])
         THEN files[d].status = last.finalStatus /\ files[d].updated_at = clock
         ELSE files[d] = last.before[1][d]

\* A target already at finalStatus was finished again and got the time of
\* the call, while its child, at finalStatus as well, kept its older
\* updated_at.
C26_Witness ==
  /\ last.op = "executeFinish"
  /\ last.error = ""
  /\ last.before[1][last.id].status = last.finalStatus
  /\ files[last.id].updated_at > last.before[1][last.id].updated_at
  /\ \E d \in Ids :
       /\ files[d].exists
       /\ files[d].parent = last.id
       /\ files[d].status = last.finalStatus
       /\ d \notin affectedIds(last.preview[1])
       /\ files[d].updated_at < clock

inWithStitchLock(t) == tasks[t].pc \in {"waiting", "loaded", "saved", "released"}

\* C28: for each stitch id, mutexMap has an entry exactly when some
\* withStitchLock call on that id is waiting or running, the refCount of the
\* entry is the number of those calls, and all of them use the mutex of the
\* entry; when no call is in progress mutexMap is empty.
C28_LockBookkeeping ==
  /\ \A id \in Ids :
       LET calls == {t \in Tasks : inWithStitchLock(t) /\ tasks[t].id = id}
       IN /\ mutexMap[id].present <=> calls # {}
          /\ mutexMap[id].present =>
               /\ mutexMap[id].refCount = Cardinality(calls)
               /\ \A t \in calls : tasks[t].mutex = mutexMap[id].mutex
  /\ (\A t \in Tasks : tasks[t].pc = "idle") => mutexMap = NoMutexMap

\* The callback of one call on a missing stitch has thrown and its mutex is
\* released, while a second call on the same id runs: the entry counts both.
C28_Witness ==
  \E t \in Tasks, u \in Tasks :
    /\ t # u
    /\ tasks[t].pc = "released"
    /\ tasks[u].pc = "saved"
    /\ tasks[t].id = tasks[u].id
    /\ ~files[tasks[t].id].exists
    /\ mutexMap[tasks[t].id].refCount = 2

\* The ids a children list holds.
childSet(list) == {list[k] : k \in 1..Len(list)}

\* children is the grouping of the parseable documents of fs by
\* relations.parent, whatever the order of each list.
groupsByParent(children, fs) ==
  \A p \in Ids :
    /\ childSet(children[p]) =
         {c \in Ids : fs[c].exists /\ ~fs[c].malformed /\ fs[c].parent = p}
    /\ Len(children[p]) = Cardinality(childSet(children[p]))

\* C29: getIndex returns the persisted index as it is, and leaves the file
\* alone, exactly when the file exists, parses and carries version 1; in
\* every other case it returns the index rebuilt from the documents, and
\* index.json then holds that index.
C29_IndexFallback ==
  last.op = "getIndex" =>
    LET persisted == last.indexBefore[1]
        returned == last.index[1]
    IN IF persisted.exists /\ persisted.parses /\ persisted.version = INDEX_VERSION
       THEN returned = persisted /\ indexFile = persisted
       ELSE /\ groupsByParent(returned.children, files)
            /\ returned.version = INDEX_VERSION
            /\ indexFile = returned
            /\ indexFile.exists /\ indexFile.parses

\* getIndex met an index.json of another version whose children map did not
\* match the documents, and the file now holds the rebuilt index.
C29_Witness ==
  /\ last.op = "getIndex"
  /\ last.indexBefore[1].exists
  /\ last.indexBefore[1].parses
  /\ last.indexBefore[1].version # INDEX_VERSION
  /\ ~groupsByParent(last.indexBefore[1].children, files)
  /\ groupsByParent(indexFile.children, files)
  /\ \E c \in Ids : files[c].exists /\ files[c].parent # NoId

\* C30: the children map of rebuildIndex maps each parent id to exactly the
\* ids of the parseable documents whose relations.parent it is, a dangling
\* parent id included, and index.json holds that map; rebuilding again over
\* the same documents gives the same children, order ignored.
C30_RebuildEquivalence ==
  last.op = "rebuildIndex" =>
    LET rebuilt == last.index[1]
        again == rebuildIndex(files)
    IN /\ groupsByParent(rebuilt.children, files)
       /\ indexFile = rebuilt
       /\ \A p \in Ids : childSet(again.children[p]) = childSet(rebuilt.children[p])

\* A rebuild over a document whose parent id has no file, which is listed
\* under that id, and an unparsable document with a parent, which is listed
\* nowhere.
C30_Witness ==
  /\ last.op = "rebuildIndex"
  /\ \E c \in Ids :
       /\ files[c].exists /\ ~files[c].malformed /\ files[c].parent # NoId
       /\ ~files[files[c].parent].exists
       /\ c \in childSet(indexFile.children[files[c].parent])
  /\ \E m \in Ids :
       /\ files[m].exists /\ files[m].malformed /\ files[m].parent # NoId
       /\ m \notin childSet(indexFile.children[files[m].parent])

============================================================================
